---- MODULE Spec2Model ----
(***************************************************************************)
(* Model of src/src/processes/noderegistry.ts: the node-registry client    *)
(* functions (register, update, nodes) and the AOData data-registry client *)
(* (prepareRegistry, register, encryptData, allData, getDataById,          *)
(* submitData, _formatPolicy, _formatTxData, _formatSigner).               *)
(*                                                                         *)
(* Every async function is cut at its awaits, the await of an inner async  *)
(* function included: the code between two awaits runs atomically on the   *)
(* JavaScript event loop and is one action.  The                           *)
(* answers of the external capabilities (message, result, dryrun, the two  *)
(* uploads, createDataItemSigner, encrypt, node discovery) are inputs.     *)
(***************************************************************************)
EXTENDS Integers, Sequences, FiniteSets, TLC

(***************************************************************************)
(* Bounds                                                                  *)
(***************************************************************************)
MaxNodes == 2           \* largest quorum size n a schema asks for
MaxList == 4            \* longest indices/names list kept in the policy model
MaxDataLen == 2         \* longest plaintext handed to encryptData

Callers == {1, 2}       \* concurrently running calls
DataTagRefs == {1, 2}   \* dataTag objects owned by the callers

(***************************************************************************)
(* JavaScript values                                                       *)
(***************************************************************************)
Undefined == [ty |-> "undefined"]
Str(s) == [ty |-> "string", val |-> s]
Num(n) == [ty |-> "number", val |-> n]
Arr(a) == [ty |-> "array", val |-> a]
Obj(o) == [ty |-> "object", val |-> o]
\* a member that holds the array object the schema carries under k rather than
\* an array of its own: what is read through it is that array as it is now
Ref(k) == [ty |-> "ref", val |-> k]

\* !v
Falsy(v) ==
  \/ v.ty \in {"undefined", "null"}
  \/ v.ty = "string" /\ v.val = ""
  \/ v.ty = "number" /\ v.val = 0

HasKey(o, k) == \E i \in 1..Len(o.val) : o.val[i][1] = k

\* o[k] and o?.[k]
Get(o, k) ==
  IF o.ty = "object" /\ HasKey(o, k)
  THEN o.val[CHOOSE i \in 1..Len(o.val) : o.val[i][1] = k][2]
  ELSE Undefined

\* o[k] = v : an own key keeps its position, a new key is appended
Set(o, k, v) ==
  IF HasKey(o, k)
  THEN Obj([i \in 1..Len(o.val) |-> IF o.val[i][1] = k THEN <<k, v>> ELSE o.val[i]])
  ELSE Obj(Append(o.val, <<k, v>>))

RECURSIVE AssignFrom(_, _, _)
AssignFrom(target, source, i) ==
  IF i > Len(source.val) THEN target
  ELSE AssignFrom(Set(target, source.val[i][1], source.val[i][2]), source, i + 1)

\* Object.assign(target, source)
ObjectAssign(target, source) == AssignFrom(target, source, 1)

RECURSIVE JSON_stringify(_)
RECURSIVE JSON_elements(_, _)
RECURSIVE JSON_members(_, _, _)

\* the elements of an array from position i on, comma separated
JSON_elements(a, i) ==
  IF i > Len(a) THEN ""
  ELSE (IF i > 1 THEN "," ELSE "")
       \o (IF a[i].ty = "undefined" THEN "null" ELSE JSON_stringify(a[i]))
       \o JSON_elements(a, i + 1)

\* the members of an object from position i on; undefined members are dropped
JSON_members(o, i, first) ==
  IF i > Len(o) THEN ""
  ELSE IF o[i][2].ty = "undefined" THEN JSON_members(o, i + 1, first)
  ELSE (IF first THEN "" ELSE ",")
       \o "\"" \o o[i][1] \o "\":" \o JSON_stringify(o[i][2])
       \o JSON_members(o, i + 1, FALSE)

\* JSON.stringify(v) for a defined v
JSON_stringify(v) ==
  CASE v.ty = "string" -> "\"" \o v.val \o "\""
    [] v.ty = "number" -> ToString(v.val)
    [] v.ty = "null" -> "null"
    [] v.ty = "array" -> "[" \o JSON_elements(v.val, 1) \o "]"
    [] v.ty = "object" -> "{" \o JSON_members(v.val, 1, TRUE) \o "}"

(***************************************************************************)
(* Configuration                                                           *)
(***************************************************************************)
NODEREGISTRY_PROCESS_ID == "NODEREGISTRY_PROCESS_ID"
DATAREGISTRY_PROCESS_ID == "DATAREGISTRY_PROCESS_ID"
StorageType_ARSEEDING == Str("arseeding")
StorageType_ARWEAVE == Str("arweave")

(***************************************************************************)
(* Inputs and answers of the external capabilities                         *)
(***************************************************************************)
Names == {"node1"}
PublicKeys == {"pkA"}
Descs == {"desc"}
Signers == {"signer1"}
Wallets == {"wallet1"}
MsgIds == {"m1", "m2"}
TxIds == {"tx1", "tx2"}
DataStatuses == {"Valid"}
DataIds == {"id1"}

\* the remote answers { Messages: [ { Data }, ... ] }: none, one or several messages
Results ==
  { [Messages |-> << >>],
    [Messages |-> << [Data |-> "id1"] >>],
    [Messages |-> << [Data |-> "id2"], [Data |-> "id1"] >>] }

\* the encrypted payloads a caller passes to submitData
EncryptedInputs ==
  { Undefined,
    Obj(<< <<"enc_msg", Str("c1")>>, <<"nonce", Str("n1")>>,
           <<"enc_sks", Str("s1")>>, <<"policy", Str("P")>> >>) }

\* the extParam values a caller passes to submitData
ExtParams ==
  { Undefined,
    Obj(<< <<"uploadParam",
             Obj(<< <<"storageType", StorageType_ARSEEDING>>,
                    <<"symbolTag", Str("AR")>> >>)>> >>),
    Obj(<< <<"uploadParam", Obj(<< <<"storageType", StorageType_ARWEAVE>> >>)>> >>) }

PriceInfos == { Obj(<< <<"price", Str("10")>>, <<"symbol", Str("AOCRED")>> >>) }

\* the policies a caller passes to submitData (only names is read)
Policies ==
  { Obj(<< <<"indices", Arr(<<Num(1), Num(2)>>)>>,
           <<"names", Arr(<<Str("a"), Str("b")>>)>>,
           <<"t", Num(2)>>, <<"n", Num(2)>> >>),
    Obj(<< <<"indices", Arr(<<Num(2), Num(1)>>)>>,
           <<"names", Arr(<<Str("b"), Str("a")>>)>>,
           <<"t", Num(2)>>, <<"n", Num(2)>> >>) }

\* the dataTag objects the callers own before any call
InitialDataTag(r) == Obj(<< <<"name", Str(IF r = 1 THEN "x" ELSE "y")>> >>)

(***************************************************************************)
(* State                                                                   *)
(***************************************************************************)
VARIABLES
  pc,         \* pc[c]: where call c is suspended
  frame,      \* frame[c]: the function call c runs, its arguments and locals
  log,        \* log[c]: the external calls call c made and their answers
  ret,        \* ret[c]: how call c settled
  heap,       \* heap[r]: the caller-owned dataTag object r
  schema,     \* the caller-owned encryption schema object
  encrypted   \* the last encryptData call and its result

vars == <<pc, frame, log, ret, heap, schema, encrypted>>

\* the array a member value stands for when the schema object is s
DerefIn(s, v) == IF v.ty = "ref" THEN Get(s, v.val) ELSE v
Deref(v) == DerefIn(schema, v)

Pending == [kind |-> "pending"]
Returned(v) == [kind |-> "value", val |-> v]
Thrown(e) == [kind |-> "error", error |-> e]

NoFrame == [op |-> "none"]

Tag(n, v) == [name |-> n, value |-> v]

(***************************************************************************)
(* The external calls a call makes, and their answers, as log entries      *)
(***************************************************************************)
MessageCall(process, tags, signer, data) ==
  [ev |-> "message", process |-> process, tags |-> tags, signer |-> signer, data |-> data]
ResultCall(msgId, process) == [ev |-> "result", message |-> msgId, process |-> process]
DryrunCall(process, tags) == [ev |-> "dryrun", process |-> process, tags |-> tags]
ArseedingCall(data, wallet, symbolTag) ==
  [ev |-> "submitDataToArseeding", data |-> data, wallet |-> wallet, symbolTag |-> symbolTag]
ARCall(data, wallet) == [ev |-> "submitDataToAR", data |-> data, wallet |-> wallet]
SignerCall(wallet) == [ev |-> "createDataItemSigner", wallet |-> wallet]
GetNodeInfosCall(n, flag) == [ev |-> "getNodeInfos", n |-> n, flag |-> flag]
Resolved(v) == [ev |-> "resolved", val |-> v]
Rejected(e) == [ev |-> "rejected", val |-> e]

\* the error an external capability rejects with
RejectionOf(ev) ==
  CASE ev = "message" -> "SubmissionError"
    [] ev = "result" -> "ResultError"
    [] ev = "dryrun" -> "DryrunError"
    [] ev \in {"submitDataToArseeding", "submitDataToAR"} -> "UploadError"
    [] ev = "createDataItemSigner" -> "SignerError"
    [] ev = "getNodeInfos" -> "DiscoveryError"

\* call c makes the external calls es and suspends at p running frame f
Suspend(c, f, es, p) ==
  /\ frame' = [frame EXCEPT ![c] = f]
  /\ log' = [log EXCEPT ![c] = @ \o es]
  /\ pc' = [pc EXCEPT ![c] = p]
  /\ UNCHANGED ret

\* call c, running frame f, logs es and settles with r
Settle(c, f, es, r) ==
  /\ frame' = [frame EXCEPT ![c] = f]
  /\ log' = [log EXCEPT ![c] = @ \o es]
  /\ ret' = [ret EXCEPT ![c] = r]
  /\ pc' = [pc EXCEPT ![c] = "done"]

\* Messages[0].Data
FirstData(Messages) ==
  IF Len(Messages) = 0 THEN Thrown("TypeError") ELSE Returned(Messages[1].Data)

\* getMessageResultData(Result), of processes/utils
getMessageResultData(Result) ==
  IF Len(Result.Messages) = 0
  THEN Thrown("EmptyResultError")
  ELSE Returned(Result.Messages[1].Data)

(***************************************************************************)
(* Node registry: register, update, nodes                                  *)
(***************************************************************************)
register(c, name, pk, desc, signer) ==
  /\ pc[c] = "idle"
  /\ Suspend(c, [op |-> "register", fn |-> "register"],
             <<MessageCall(NODEREGISTRY_PROCESS_ID,
                           <<Tag("Action", "Register"), Tag("Name", name), Tag("Desc", desc)>>,
                           signer, pk)>>,
             "message")
  /\ UNCHANGED <<heap, schema, encrypted>>

\* register_msgId asking the data registry for the result
register_msgId_otherProcess(c, msgId) ==
  /\ pc[c] = "message" /\ frame[c].fn = "register"
  /\ Suspend(c, frame[c],
             <<Resolved(msgId), ResultCall(msgId, DATAREGISTRY_PROCESS_ID)>>,
             "result")
  /\ UNCHANGED <<heap, schema, encrypted>>

register_msgId(c, msgId) ==
  /\ pc[c] = "message" /\ frame[c].fn = "register"
  /\ Suspend(c, frame[c],
             <<Resolved(msgId), ResultCall(msgId, NODEREGISTRY_PROCESS_ID)>>,
             "result")
  /\ UNCHANGED <<heap, schema, encrypted>>

register_Messages(c, Result) ==
  /\ pc[c] = "result" /\ frame[c].fn = "register"
  /\ Settle(c, frame[c], <<Resolved(Result)>>, FirstData(Result.Messages))
  /\ UNCHANGED <<heap, schema, encrypted>>

update(c, name, pk, desc, signer) ==
  /\ pc[c] = "idle"
  /\ Suspend(c, [op |-> "update", fn |-> "update"],
             <<MessageCall(NODEREGISTRY_PROCESS_ID,
                           <<Tag("Action", "Update"), Tag("Name", name), Tag("Desc", desc)>>,
                           signer, pk)>>,
             "message")
  /\ UNCHANGED <<heap, schema, encrypted>>

update_msgId(c, msgId) ==
  /\ pc[c] = "message" /\ frame[c].fn = "update"
  /\ Suspend(c, frame[c],
             <<Resolved(msgId), ResultCall(msgId, NODEREGISTRY_PROCESS_ID)>>,
             "result")
  /\ UNCHANGED <<heap, schema, encrypted>>

update_Messages(c, Result) ==
  /\ pc[c] = "result" /\ frame[c].fn = "update"
  /\ Settle(c, frame[c], <<Resolved(Result)>>, FirstData(Result.Messages))
  /\ UNCHANGED <<heap, schema, encrypted>>

nodes(c) ==
  /\ pc[c] = "idle"
  /\ Suspend(c, [op |-> "nodes", fn |-> "nodes"],
             <<DryrunCall(NODEREGISTRY_PROCESS_ID, <<Tag("Action", "Nodes")>>)>>,
             "dryrun")
  /\ UNCHANGED <<heap, schema, encrypted>>

nodes_Messages(c, Result) ==
  /\ pc[c] = "dryrun" /\ frame[c].fn = "nodes"
  /\ Settle(c, frame[c], <<Resolved(Result)>>, FirstData(Result.Messages))
  /\ UNCHANGED <<heap, schema, encrypted>>

(***************************************************************************)
(* AOData: register, allData, getDataById                                  *)
(***************************************************************************)
\* AOData_register_message sending the compute nodes of an empty policy
AOData_register_message_noNodes(dataTag, price, exData, computeNodes, signer) ==
  MessageCall(DATAREGISTRY_PROCESS_ID,
              <<Tag("Action", "Register"), Tag("DataTag", dataTag), Tag("Price", price),
                Tag("ComputeNodes", JSON_stringify(Arr(<< >>)))>>,
              signer, exData)

\* the message AOData.register submits
AOData_register_message(dataTag, price, exData, computeNodes, signer) ==
  MessageCall(DATAREGISTRY_PROCESS_ID,
              <<Tag("Action", "Register"), Tag("DataTag", dataTag), Tag("Price", price),
                Tag("ComputeNodes", JSON_stringify(Deref(computeNodes)))>>,
              signer, exData)

AOData_register(c, dataTag, price, exData, computeNodes, signer) ==
  /\ pc[c] = "idle"
  /\ Suspend(c, [op |-> "AOData.register", fn |-> "AOData.register"],
             <<AOData_register_message(dataTag, price, exData, computeNodes, signer)>>,
             "message")
  /\ UNCHANGED <<heap, schema, encrypted>>

AOData_register_msgId(c, msgId) ==
  /\ pc[c] = "message" /\ frame[c].fn = "AOData.register"
  /\ Suspend(c, frame[c],
             <<Resolved(msgId), ResultCall(msgId, DATAREGISTRY_PROCESS_ID)>>,
             "result")
  /\ UNCHANGED <<heap, schema, encrypted>>

AOData_register_Result(c, Result) ==
  /\ pc[c] = "result" /\ frame[c].fn = "AOData.register"
  /\ Settle(c, frame[c], <<Resolved(Result)>>, getMessageResultData(Result))
  /\ UNCHANGED <<heap, schema, encrypted>>

allData(c, dataStatus) ==
  /\ pc[c] = "idle"
  /\ Suspend(c, [op |-> "allData", fn |-> "allData"],
             <<DryrunCall(DATAREGISTRY_PROCESS_ID,
                          <<Tag("Action", "AllData"), Tag("DataStatus", dataStatus)>>)>>,
             "dryrun")
  /\ UNCHANGED <<heap, schema, encrypted>>

allData_Messages(c, Result) ==
  /\ pc[c] = "dryrun" /\ frame[c].fn = "allData"
  /\ Settle(c, frame[c], <<Resolved(Result)>>, FirstData(Result.Messages))
  /\ UNCHANGED <<heap, schema, encrypted>>

getDataById(c, dataId) ==
  /\ pc[c] = "idle"
  /\ Suspend(c, [op |-> "getDataById", fn |-> "getDataById"],
             <<DryrunCall(DATAREGISTRY_PROCESS_ID,
                          <<Tag("Action", "GetDataById"), Tag("DataId", dataId)>>)>>,
             "dryrun")
  /\ UNCHANGED <<heap, schema, encrypted>>

getDataById_Messages(c, Result) ==
  /\ pc[c] = "dryrun" /\ frame[c].fn = "getDataById"
  /\ Settle(c, frame[c], <<Resolved(Result)>>, FirstData(Result.Messages))
  /\ UNCHANGED <<heap, schema, encrypted>>

(***************************************************************************)
(* AOData: submitData, _formatTxData, _formatSigner                        *)
(***************************************************************************)
\* a === b, for the primitive values compared here
StrictEquals(a, b) ==
  /\ a.ty = b.ty
  /\ a.ty \in {"undefined", "null"} \/ a.val = b.val

\* StorageType.ARSEEDING === extParam?.uploadParam?.storageType
IsArseeding(extParam) ==
  StrictEquals(StorageType_ARSEEDING, Get(Get(extParam, "uploadParam"), "storageType"))

\* the value _formatTxData writes to dataTag['storageType']
_formatTxData_storageType(extParam) ==
  IF IsArseeding(extParam) THEN StorageType_ARSEEDING ELSE StorageType_ARWEAVE

\* the upload _formatTxData awaits
_formatTxData_upload(encryptedData, wallet, extParam) ==
  IF IsArseeding(extParam)
  THEN ArseedingCall(Get(encryptedData, "enc_msg"), wallet,
                     Get(Get(extParam, "uploadParam"), "symbolTag"))
  ELSE ARCall(Get(encryptedData, "enc_msg"), wallet)

\* _formatTxData_exData embedding the nonce where the transaction id belongs
_formatTxData_exData_wrongId(encryptedData, transactionId) ==
  Obj(<< <<"policy", Get(encryptedData, "policy")>>,
         <<"nonce", Get(encryptedData, "nonce")>>,
         <<"transactionId", Get(encryptedData, "nonce")>>,
         <<"encSks", Get(encryptedData, "enc_sks")>> >>)

\* the exData _formatTxData returns once the upload answered transactionId
_formatTxData_exData(encryptedData, transactionId) ==
  Obj(<< <<"policy", Get(encryptedData, "policy")>>,
         <<"nonce", Get(encryptedData, "nonce")>>,
         <<"transactionId", transactionId>>,
         <<"encSks", Get(encryptedData, "enc_sks")>> >>)

\* submitData up to the await of the upload inside _formatTxData
\* (Arweave.init only builds the client handed to the upload)
submitData(c, encryptData, dataTag, priceInfo, policy, wallet, extParam) ==
  /\ pc[c] = "idle"
  /\ LET f == [op |-> "submitData", fn |-> "_formatTxData",
               encryptData |-> encryptData, dataTag |-> dataTag,
               priceInfo |-> priceInfo, policy |-> policy,
               wallet |-> wallet, extParam |-> extParam, txData |-> Undefined]
     IN IF Falsy(encryptData)
        THEN /\ Settle(c, f, << >>,
                       Thrown("The encrypted Data to be uploaded can not be empty"))
             /\ UNCHANGED heap
        ELSE /\ heap' = [heap EXCEPT ![dataTag] =
                           Set(@, "storageType", _formatTxData_storageType(extParam))]
             /\ Suspend(c, f, <<_formatTxData_upload(encryptData, wallet, extParam)>>,
                        "upload")
  /\ UNCHANGED <<schema, encrypted>>

\* _formatTxData from the answer of the upload to its return: submitData
\* waits for the returned promise
_formatTxData_transactionId(c, transactionId) ==
  /\ pc[c] = "upload" /\ frame[c].fn = "_formatTxData"
  /\ Suspend(c, [frame[c] EXCEPT !.fn = "submitData",
                                 !.txData = _formatTxData_exData(frame[c].encryptData,
                                                                 Str(transactionId))],
             <<Resolved(transactionId)>>, "txData")
  /\ UNCHANGED <<heap, schema, encrypted>>

\* submitData from the answer of _formatTxData to the await of message() in
\* register; signer is the answer of createDataItemSigner
submitData_txData(c, signer) ==
  /\ pc[c] = "txData" /\ frame[c].fn = "submitData"
  /\ LET f == frame[c]
         dataTagStr == JSON_stringify(heap[f.dataTag])
         priceInfoStr == JSON_stringify(f.priceInfo)
         txDataStr == JSON_stringify(f.txData)
         computeNodes == Get(f.policy, "names")
     IN IF signer.kind = "error"
        THEN Settle(c, f, <<SignerCall(f.wallet), Rejected(signer.error)>>,
                    Thrown(signer.error))
        ELSE Suspend(c, [f EXCEPT !.fn = "AOData.register"],
                     <<SignerCall(f.wallet), Resolved(signer.val),
                       AOData_register_message(dataTagStr, priceInfoStr, txDataStr,
                                               computeNodes, signer.val)>>,
                     "message")
  /\ UNCHANGED <<heap, schema, encrypted>>

\* await_rejected wrapping the error of the external call
await_rejected_wrapped(c) ==
  /\ pc[c] \in {"message", "result", "dryrun", "upload", "discovery"}
  /\ LET e == RejectionOf(log[c][Len(log[c])].ev)
     IN Settle(c, frame[c], <<Rejected(e)>>, Thrown("SubmitDataError"))
  /\ UNCHANGED <<heap, schema, encrypted>>

\* an awaited external call rejects: no function catches, the call fails with it
await_rejected(c) ==
  /\ pc[c] \in {"message", "result", "dryrun", "upload", "discovery"}
  /\ LET e == RejectionOf(log[c][Len(log[c])].ev)
     IN Settle(c, frame[c], <<Rejected(e)>>, Thrown(e))
  /\ UNCHANGED <<heap, schema, encrypted>>

\* the caller takes the settled promise
Return(c) ==
  /\ pc[c] = "done"
  /\ pc' = [pc EXCEPT ![c] = "idle"]
  /\ frame' = [frame EXCEPT ![c] = NoFrame]
  /\ log' = [log EXCEPT ![c] = << >>]
  /\ ret' = [ret EXCEPT ![c] = Pending]
  /\ UNCHANGED <<heap, schema, encrypted>>

SignerAnswers == { Returned(s) : s \in Signers } \cup { Thrown(RejectionOf("createDataItemSigner")) }

NoSchema == Obj(<< >>)
NotEncrypted == [called |-> FALSE]

InitCalls ==
  /\ pc = [c \in Callers |-> "idle"]
  /\ frame = [c \in Callers |-> NoFrame]
  /\ log = [c \in Callers |-> << >>]
  /\ ret = [c \in Callers |-> Pending]
  /\ heap = [r \in DataTagRefs |-> InitialDataTag(r)]

Init ==
  /\ InitCalls
  /\ schema = NoSchema
  /\ encrypted = NotEncrypted

Next ==
  \E c \in Callers :
    \/ \E name \in Names, pk \in PublicKeys, desc \in Descs, signer \in Signers :
         register(c, name, pk, desc, signer)
    \/ \E msgId \in MsgIds : register_msgId(c, msgId)
    \/ \E Result \in Results : register_Messages(c, Result)
    \/ \E name \in Names, pk \in PublicKeys, desc \in Descs, signer \in Signers :
         update(c, name, pk, desc, signer)
    \/ \E msgId \in MsgIds : update_msgId(c, msgId)
    \/ \E Result \in Results : update_Messages(c, Result)
    \/ nodes(c)
    \/ \E Result \in Results : nodes_Messages(c, Result)
    \/ \E policy \in Policies, signer \in Signers :
         AOData_register(c, JSON_stringify(InitialDataTag(1)),
                         JSON_stringify(CHOOSE p \in PriceInfos : TRUE), "{}",
                         Get(policy, "names"), signer)
    \/ \E msgId \in MsgIds : AOData_register_msgId(c, msgId)
    \/ \E Result \in Results : AOData_register_Result(c, Result)
    \/ \E dataStatus \in DataStatuses : allData(c, dataStatus)
    \/ \E Result \in Results : allData_Messages(c, Result)
    \/ \E dataId \in DataIds : getDataById(c, dataId)
    \/ \E Result \in Results : getDataById_Messages(c, Result)
    \/ \E encryptData \in EncryptedInputs, dataTag \in DataTagRefs, priceInfo \in PriceInfos,
          policy \in Policies, wallet \in Wallets, extParam \in ExtParams :
         submitData(c, encryptData, dataTag, priceInfo, policy, wallet, extParam)
    \/ \E transactionId \in TxIds : _formatTxData_transactionId(c, transactionId)
    \/ \E signer \in SignerAnswers : submitData_txData(c, signer)
    \/ await_rejected(c)
    \/ Return(c)

Spec == Init /\ [][Next]_vars

(***************************************************************************)
(* Reading the log of a call                                               *)
(***************************************************************************)
UploadEvs == {"submitDataToArseeding", "submitDataToAR"}
CommittedOps == {"register", "update", "AOData.register", "submitData"}
DryrunOps == {"nodes", "allData", "getDataById"}

\* the positions of call c's log that hold an external call of a kind in evs
At(c, evs) == { i \in 1..Len(log[c]) : log[c][i].ev \in evs }

\* the external call at position i of call c's log was answered with a value
Answered(c, i) == i < Len(log[c]) /\ log[c][i + 1].ev = "resolved"

\* the external call at position i of call c's log is the last entry: no answer yet
Unanswered(c, i) == i = Len(log[c])

TagValue(msg, n) == msg.tags[CHOOSE i \in 1..Len(msg.tags) : msg.tags[i].name = n].value

\* the value of U whose JSON text is s
JSON_parse(s, U) ==
  IF \E v \in U : JSON_stringify(v) = s
  THEN CHOOSE v \in U : JSON_stringify(v) = s
  ELSE Undefined

StorageTypes == {StorageType_ARSEEDING, StorageType_ARWEAVE}

DataTagValues ==
  { InitialDataTag(r) : r \in DataTagRefs }
    \cup { Set(InitialDataTag(r), "storageType", st) : r \in DataTagRefs, st \in StorageTypes }

ExDataValues ==
  { _formatTxData_exData(e, t) :
      e \in { x \in EncryptedInputs : ~Falsy(x) },
      t \in { Str(id) : id \in TxIds } \cup { Undefined } }

\* the storage backend an upload call goes to
BackendOf(ev) ==
  IF ev = "submitDataToArseeding" THEN StorageType_ARSEEDING ELSE StorageType_ARWEAVE

(***************************************************************************)
(* C1: in submitData the Register message is sent only after the upload    *)
(* has answered with a transaction id, and the message's data carries      *)
(* exactly that id as transactionId; while the upload is pending or has     *)
(* failed no message has been sent.                                        *)
(***************************************************************************)
UploadBeforeRegister ==
  \A c \in Callers :
    frame[c].op = "submitData" =>
      /\ \A i \in At(c, {"message"}) :
           \E j \in At(c, UploadEvs) :
             /\ j + 1 < i
             /\ Answered(c, j)
             /\ log[c][j + 1].val \in TxIds
             /\ Get(JSON_parse(log[c][i].data, ExDataValues), "transactionId")
                  = Str(log[c][j + 1].val)
      /\ (\A j \in At(c, UploadEvs) : ~Answered(c, j)) => At(c, {"message"}) = {}
      /\ pc[c] \in {"upload", "txData"} => At(c, {"message"}) = {}

UploadBeforeRegister_witness ==
  \E c \in Callers :
    /\ frame[c].op = "submitData"
    /\ pc[c] = "message"
    /\ At(c, {"message"}) # {}
    /\ \E d \in Callers \ {c} : pc[d] = "upload"

(***************************************************************************)
(* C2: a remote answer with zero messages makes the call fail with         *)
(* EmptyResultError, for every committed and every dry-run call.           *)
(***************************************************************************)
\* call c has settled on an answer of result() or dryrun() that holds no message
SettledOnEmptyResult(c) ==
  /\ pc[c] = "done"
  /\ Len(log[c]) >= 2
  /\ log[c][Len(log[c]) - 1].ev \in {"result", "dryrun"}
  /\ log[c][Len(log[c])].ev = "resolved"
  /\ log[c][Len(log[c])].val.Messages = << >>

EmptyResultFailsWithEmptyResultError ==
  \A c \in Callers : SettledOnEmptyResult(c) => ret[c] = Thrown("EmptyResultError")

(***************************************************************************)
(* C3: a committed call submits at most one message and retrieves exactly  *)
(* one result, keyed by the returned id and the message's process, only    *)
(* after the submission answered; a failed submission is followed by       *)
(* nothing.  A dry-run call makes exactly one dryrun and nothing else.     *)
(***************************************************************************)
AtMostOneAttempt ==
  \A c \in Callers :
    /\ frame[c].op \in CommittedOps =>
         /\ Cardinality(At(c, {"message"})) <= 1
         /\ Cardinality(At(c, {"result"})) <= 1
         /\ At(c, {"dryrun"}) = {}
         /\ \A i \in At(c, {"result"}) :
              /\ i >= 3
              /\ log[c][i - 2].ev = "message"
              /\ log[c][i - 1] = Resolved(log[c][i].message)
              /\ log[c][i].process = log[c][i - 2].process
         /\ \A i \in At(c, {"message"}) :
              /\ Answered(c, i) => At(c, {"result"}) = {i + 2}
              /\ ~Answered(c, i) => At(c, {"result"}) = {}
              /\ ~Answered(c, i) /\ ~Unanswered(c, i) =>
                   /\ log[c] = SubSeq(log[c], 1, i) \o <<Rejected(RejectionOf("message"))>>
                   /\ pc[c] = "done"
    /\ frame[c].op \in DryrunOps =>
         /\ At(c, {"dryrun"}) = {1}
         /\ At(c, {"message", "result"} \cup UploadEvs) = {}
         /\ Len(log[c]) <= 2

AtMostOneAttempt_witness ==
  /\ \E c \in Callers :
       /\ frame[c].op \in {"register", "update", "AOData.register"}
       /\ pc[c] = "done"
       /\ At(c, {"result"}) # {}
  /\ \E c \in Callers :
       /\ frame[c].op \in CommittedOps
       /\ pc[c] = "done"
       /\ At(c, {"message"}) # {} /\ At(c, {"result"}) = {}

(***************************************************************************)
(* C5: submitData uploads through arseeding, with the given symbol tag,    *)
(* exactly when extParam.uploadParam.storageType is ARSEEDING and through  *)
(* arweave otherwise, and the storageType in the DataTag attribute of the  *)
(* registration names the path that was invoked.                           *)
(***************************************************************************)
RegisteredStorageType(msg) ==
  Get(JSON_parse(TagValue(msg, "DataTag"), DataTagValues), "storageType")

StorageTypeNamesUploadPath ==
  \A c \in Callers :
    frame[c].op = "submitData" /\ ~Falsy(frame[c].encryptData) =>
      LET f == frame[c]
          uploadParam == Get(f.extParam, "uploadParam")
          enc_msg == Get(f.encryptData, "enc_msg")
      IN /\ At(c, UploadEvs) = {1}
         /\ StrictEquals(Get(uploadParam, "storageType"), StorageType_ARSEEDING) =>
              log[c][1] = ArseedingCall(enc_msg, f.wallet, Get(uploadParam, "symbolTag"))
         /\ ~StrictEquals(Get(uploadParam, "storageType"), StorageType_ARSEEDING) =>
              log[c][1] = ARCall(enc_msg, f.wallet)
         /\ \A i \in At(c, {"message"}) :
              RegisteredStorageType(log[c][i]) = BackendOf(log[c][1].ev)

(***************************************************************************)
(* C8: calls share no mutable state: under every interleaving of two       *)
(* submitData calls each registration carries the storageType of the       *)
(* backend its own call uploaded to and the transactionId its own upload   *)
(* returned.                                                               *)
(***************************************************************************)
CallsShareNoState ==
  \A c \in Callers :
    frame[c].op = "submitData" =>
      \A i \in At(c, {"message"}) : \A j \in At(c, UploadEvs) :
        /\ RegisteredStorageType(log[c][i]) = BackendOf(log[c][j].ev)
        /\ Get(JSON_parse(log[c][i].data, ExDataValues), "transactionId")
             = Str(log[c][j + 1].val)

(***************************************************************************)
(* C9: every failure of submitData ends the call at once with the error    *)
(* of the failed step: a missing payload before any external call, a       *)
(* failed upload before the signer and the registration, a failed          *)
(* registration without a second upload or message.                        *)
(***************************************************************************)
FailuresSurfaceUnchanged ==
  \A c \in Callers :
    frame[c].op = "submitData" =>
      /\ Falsy(frame[c].encryptData) =>
           /\ log[c] = << >>
           /\ pc[c] = "done"
           /\ ret[c] = Thrown("The encrypted Data to be uploaded can not be empty")
      /\ \A i \in 1..Len(log[c]) :
           log[c][i].ev = "rejected" =>
             /\ i = Len(log[c])
             /\ pc[c] = "done"
             /\ ret[c] = Thrown(log[c][i].val)
      /\ \A j \in At(c, UploadEvs) :
           ~Answered(c, j) => At(c, {"createDataItemSigner", "message", "result"}) = {}
      /\ Cardinality(At(c, UploadEvs)) <= 1
      /\ Cardinality(At(c, {"message"})) <= 1
      /\ SettledOnEmptyResult(c) => ret[c].kind = "error"
      /\ pc[c] = "done" /\ ret[c].kind = "error" =>
           \/ Falsy(frame[c].encryptData)
           \/ log[c][Len(log[c])].ev = "rejected"
           \/ SettledOnEmptyResult(c)

FailuresSurfaceUnchanged_witness ==
  /\ \E c \in Callers :
       /\ frame[c].op = "submitData" /\ pc[c] = "done"
       /\ At(c, {"message"}) # {}
       /\ ret[c] = Thrown(RejectionOf("message"))
  /\ \E c \in Callers :
       /\ frame[c].op = "submitData" /\ pc[c] = "done"
       /\ ret[c] = Thrown(RejectionOf("submitDataToAR"))

(***************************************************************************)
(* AOData: prepareRegistry, _formatPolicy                                  *)
(***************************************************************************)
\* Number(v) for a number or a decimal string
Number(v) ==
  IF v.ty = "number" THEN v
  ELSE Num(CHOOSE n \in 0..9 : ToString(n) = v.val)

NodeInfo(index, name, pk) ==
  Obj(<< <<"index", Num(index)>>, <<"name", Str(name)>>, <<"pk", Str(pk)>> >>)

\* the nodes discovery knows
KnownNodes == { NodeInfo(1, "a", "pkA"), NodeInfo(2, "b", "pkB") }

\* new Worker().getNodeInfos(n, true): a quorum of n nodes
getNodeInfos(n) == [1..n -> KnownNodes]

\* the encryption schemas a caller holds: t and n as decimal strings or as
\* numbers, alone or beside (still empty) indices and names lists
Schemas ==
  UNION { { Obj(<< <<"t", Str(ToString(tn[1]))>>, <<"n", Str(ToString(tn[2]))>> >>),
            Obj(<< <<"t", Num(tn[1])>>, <<"n", Num(tn[2])>> >>),
            Obj(<< <<"t", Str(ToString(tn[1]))>>, <<"n", Str(ToString(tn[2]))>>,
                   <<"indices", Arr(<< >>)>>, <<"names", Arr(<< >>)>> >>) } :
          tn \in { x \in (1..MaxNodes) \X (1..MaxNodes) : x[1] <= x[2] } }

\* the member k of every object of the list a
Pluck(a, k) == [i \in 1..Len(a) |-> Get(a[i], k)]

\* _formatPolicy: the returned policy and public keys, and the caller's schema
\* object after the call.  Object.assign copies the schema's members over the
\* fresh lists, so lists the schema carries are the ones pushed to, in place,
\* and the returned policy (a shallow copy) holds those same array objects.
_formatPolicy(encryptionSchema, nodeInfos) ==
  LET assigned == ObjectAssign(Obj(<< <<"indices", Arr(<< >>)>>, <<"names", Arr(<< >>)>> >>),
                               encryptionSchema)
      indices == Arr(Get(assigned, "indices").val \o Pluck(nodeInfos, "index"))
      names == Arr(Get(assigned, "names").val \o Pluck(nodeInfos, "name"))
      nodesPublicKey == Arr(Pluck(nodeInfos, "pk"))
      policy == Set(Set(assigned, "indices",
                        IF HasKey(encryptionSchema, "indices") THEN Ref("indices") ELSE indices),
                    "names",
                    IF HasKey(encryptionSchema, "names") THEN Ref("names") ELSE names)
      formatPolicy == Set(Set(policy, "t", Number(Get(policy, "t"))),
                          "n", Number(Get(policy, "n")))
      shared1 == IF HasKey(encryptionSchema, "indices")
                 THEN Set(encryptionSchema, "indices", indices) ELSE encryptionSchema
      shared2 == IF HasKey(encryptionSchema, "names")
                 THEN Set(shared1, "names", names) ELSE shared1
  IN [policy |-> formatPolicy, publicKeys |-> nodesPublicKey, encryptionSchema |-> shared2]

\* the length of the list the schema carries under k, 0 if it carries none
Carried(encryptionSchema, k) ==
  IF HasKey(encryptionSchema, k) THEN Len(Get(encryptionSchema, k).val) ELSE 0

\* prepareRegistry(schema) up to the await of discovery
prepareRegistry(c) ==
  /\ pc[c] = "idle"
  /\ Suspend(c, [op |-> "prepareRegistry", fn |-> "prepareRegistry",
                 encryptionSchema |-> schema, nodeInfos |-> << >>,
                 policy |-> Undefined, publicKeys |-> Undefined],
             <<GetNodeInfosCall(Number(Get(schema, "n")).val, TRUE)>>, "discovery")
  /\ UNCHANGED <<heap, schema, encrypted>>

\* prepareRegistry from the answer of discovery to the await of _formatPolicy's
\* result: _formatPolicy runs on the schema object as it is now
prepareRegistry_nodeInfos(c, nodeInfos) ==
  /\ pc[c] = "discovery" /\ frame[c].fn = "prepareRegistry"
  /\ LET r == _formatPolicy(schema, nodeInfos)
     IN /\ schema' = r.encryptionSchema
        /\ Suspend(c, [frame[c] EXCEPT !.nodeInfos = nodeInfos, !.policy = r.policy,
                                       !.publicKeys = r.publicKeys],
                   <<Resolved(nodeInfos)>>, "formatPolicy")
  /\ UNCHANGED <<heap, encrypted>>

\* prepareRegistry returns [policy, publicKeys]: the policy object built by
\* _formatPolicy, lists the schema carries included
prepareRegistry_return(c) ==
  /\ pc[c] = "formatPolicy" /\ frame[c].fn = "prepareRegistry"
  /\ Settle(c, frame[c], << >>,
            Returned([policy |-> frame[c].policy, publicKeys |-> frame[c].publicKeys]))
  /\ UNCHANGED <<heap, schema, encrypted>>

InitPolicy ==
  /\ InitCalls
  /\ schema \in Schemas
  /\ encrypted = NotEncrypted

\* the policies callers hold from prepareRegistry calls that returned
HeldPolicies ==
  { ret[d].val.policy :
      d \in { e \in Callers : /\ pc[e] = "done" /\ frame[e].op = "prepareRegistry"
                              /\ ret[e].kind = "value" } }

\* what discovery answers call c: the n nodes it was asked for, as long as the
\* lists of the schema stay within MaxList entries
DiscoveryAnswers(c) ==
  IF pc[c] = "discovery" /\ Carried(schema, "indices") + log[c][1].n <= MaxList
  THEN getNodeInfos(log[c][1].n)
  ELSE {}

\* submitData is handed a policy of the caller's own making or one that a
\* prepareRegistry call returned
NextPolicy ==
  \E c \in Callers :
    \/ prepareRegistry(c)
    \/ \E nodeInfos \in DiscoveryAnswers(c) : prepareRegistry_nodeInfos(c, nodeInfos)
    \/ prepareRegistry_return(c)
    \/ \E encryptData \in { e \in EncryptedInputs : ~Falsy(e) }, priceInfo \in PriceInfos,
          policy \in Policies \cup HeldPolicies, wallet \in Wallets :
         submitData(c, encryptData, 1, priceInfo, policy, wallet, Undefined)
    \/ \E transactionId \in TxIds : _formatTxData_transactionId(c, transactionId)
    \/ \E signer \in SignerAnswers : submitData_txData(c, signer)
    \/ \E msgId \in MsgIds : AOData_register_msgId(c, msgId)
    \/ \E Result \in Results : AOData_register_Result(c, Result)
    \/ await_rejected(c)
    \/ Return(c)

SpecPolicy == InitPolicy /\ [][NextPolicy]_vars

(***************************************************************************)
(* C7: the policy prepareRegistry formats has indices and names, and the   *)
(* public keys, of length n that hold, position by position, the index,    *)
(* name and public key of the nodes in discovery order.                    *)
(***************************************************************************)
PolicyListsFollowQuorum ==
  \A c \in Callers :
    frame[c].op = "prepareRegistry" /\ pc[c] \in {"formatPolicy", "done"}
      /\ ret[c].kind # "error" =>
      LET n == Get(frame[c].policy, "n").val
          indices == Deref(Get(frame[c].policy, "indices")).val
          names == Deref(Get(frame[c].policy, "names")).val
          publicKeys == frame[c].publicKeys.val
      IN /\ Len(indices) = n /\ Len(names) = n /\ Len(publicKeys) = n
         /\ \A i \in 1..n :
              /\ indices[i] = Get(frame[c].nodeInfos[i], "index")
              /\ names[i] = Get(frame[c].nodeInfos[i], "name")
              /\ publicKeys[i] = Get(frame[c].nodeInfos[i], "pk")

(***************************************************************************)
(* C10: the step that runs _formatPolicy leaves the caller's schema object *)
(* as it was, and the indices and names it returns hold the entries of the *)
(* nodes passed to this call only.                                         *)
(***************************************************************************)
FormatPolicyLeavesInputs ==
  [][\A c \in Callers :
       pc[c] = "discovery" /\ pc'[c] = "formatPolicy" =>
         /\ schema' = schema
         /\ DerefIn(schema', Get(frame'[c].policy, "indices")).val
              = Pluck(frame'[c].nodeInfos, "index")
         /\ DerefIn(schema', Get(frame'[c].policy, "names")).val
              = Pluck(frame'[c].nodeInfos, "name")]_vars

(***************************************************************************)
(* AOData: submitData with a policy that prepareRegistry returned          *)
(***************************************************************************)
\* the lists of node names a policy can hold
NamesValues ==
  { Get(p, "names") : p \in Policies }
    \cup { Arr(a) : a \in UNION { [1..k -> { Get(nd, "name") : nd \in KnownNodes }] :
                                   k \in 0..MaxList } }

(***************************************************************************)
(* C4: a submitData call that returns a value has made exactly one upload  *)
(* and exactly one Register message and returns the Data of the registry's *)
(* first result message, and the ComputeNodes attribute of the Register    *)
(* message is JSON equal to policy.names as the policy object is when      *)
(* register is invoked.                                                    *)
(***************************************************************************)
SubmitDataEndToEnd ==
  /\ [](\A c \in Callers :
          frame[c].op = "submitData" /\ pc[c] = "done" /\ ret[c].kind = "value" =>
            /\ Cardinality(At(c, UploadEvs)) = 1
            /\ Cardinality(At(c, {"message"})) = 1
            /\ \A i \in At(c, {"message"}) :
                 /\ log[c][i].process = DATAREGISTRY_PROCESS_ID
                 /\ TagValue(log[c][i], "Action") = "Register"
            /\ \A i \in At(c, {"result"}) :
                 /\ Answered(c, i)
                 /\ ret[c].val = log[c][i + 1].val.Messages[1].Data)
  /\ [][\A c \in Callers :
          frame[c].op = "submitData" /\ pc[c] = "txData" /\ pc'[c] = "message" =>
            JSON_parse(TagValue(log'[c][Len(log'[c])], "ComputeNodes"), NamesValues)
              = DerefIn(schema', Get(frame'[c].policy, "names"))]_vars

\* a call returned the registry's identifier after registering the names of a
\* policy that shares the schema's lists, which hold more than n names
SubmitDataEndToEnd_witness ==
  \E c \in Callers :
    /\ frame[c].op = "submitData" /\ pc[c] = "done" /\ ret[c] = Returned("id2")
    /\ Get(frame[c].policy, "names").ty = "ref"
    /\ \E i \in At(c, {"message"}) :
         Len(JSON_parse(TagValue(log[c][i], "ComputeNodes"), NamesValues).val)
           > Get(frame[c].policy, "n").val

(***************************************************************************)
(* AOData: encryptData                                                     *)
(***************************************************************************)
Bytes == {0, 255}

\* the Uint8Array payloads handed to encryptData
Payloads == UNION { [1..k -> Bytes] : k \in 0..MaxDataLen }

PublicKeyLists == { << >>, <<"pkA">>, <<"pkA", "pkB">> }

EncryptCall(publicKeys, data, policy) ==
  [ev |-> "encrypt", publicKeys |-> publicKeys, data |-> data, policy |-> policy]

\* what the external encrypt answers: its output, with or without a member
\* named policy of its own, or an error
EncryptAnswers ==
  { Returned(Obj(<< <<"enc_sks", Str("s1")>>, <<"nonce", Str("n1")>>,
                    <<"enc_msg", Str("c1")>> >>)),
    Returned(Obj(<< <<"policy", Str("own")>>, <<"enc_msg", Str("c1")>> >>)),
    Thrown("EncryptError") }

\* encryptData that hands every payload to encrypt
encryptData_noCheck(data, policy, publicKeys, answer) ==
  [calls |-> <<EncryptCall(publicKeys, data, policy)>>,
   ret |-> IF answer.kind = "error" THEN answer
           ELSE Returned(ObjectAssign(answer.val, Obj(<< <<"policy", policy>> >>)))]

\* encryptData(data, policy, publicKeys): the calls of encrypt it makes and how
\* it ends, answer being what encrypt answers when called
encryptData(data, policy, publicKeys, answer) ==
  IF Len(data) = 0
  THEN [calls |-> << >>, ret |-> Thrown("The Data to be encrypted can not be empty")]
  ELSE [calls |-> <<EncryptCall(publicKeys, data, policy)>>,
        ret |-> IF answer.kind = "error" THEN answer
                ELSE Returned(ObjectAssign(answer.val, Obj(<< <<"policy", policy>> >>)))]

\* a caller calls encryptData
CallEncryptData(data, policy, publicKeys, answer) ==
  /\ encrypted' = [called |-> TRUE, data |-> data, policy |-> policy,
                   publicKeys |-> publicKeys, answer |-> answer,
                   result |-> encryptData(data, policy, publicKeys, answer)]
  /\ UNCHANGED <<pc, frame, log, ret, heap, schema>>

NextEncrypt ==
  \E data \in Payloads, policy \in Policies, publicKeys \in PublicKeyLists,
     answer \in EncryptAnswers :
    CallEncryptData(data, policy, publicKeys, answer)

SpecEncrypt == Init /\ [][NextEncrypt]_vars

(***************************************************************************)
(* C6: encryptData with an empty payload fails with the empty-payload      *)
(* error without calling encrypt, whatever the policy and the public keys; *)
(* with a non-empty payload it calls encrypt once, with the public keys,   *)
(* the payload and the policy, and returns encrypt's output with the       *)
(* policy under the member policy.                                         *)
(***************************************************************************)
Keys(o) == { o.val[i][1] : i \in 1..Len(o.val) }

EncryptDataRejectsEmpty ==
  encrypted.called =>
    LET e == encrypted IN
    IF Len(e.data) = 0
    THEN /\ e.result.ret = Thrown("The Data to be encrypted can not be empty")
         /\ e.result.calls = << >>
    ELSE /\ e.result.calls = <<EncryptCall(e.publicKeys, e.data, e.policy)>>
         /\ e.answer.kind = "error" => e.result.ret = e.answer
         /\ e.answer.kind = "value" =>
              /\ e.result.ret.kind = "value"
              /\ Keys(e.result.ret.val) = Keys(e.answer.val) \cup {"policy"}
              /\ Get(e.result.ret.val, "policy") = e.policy
              /\ \A k \in Keys(e.answer.val) \ {"policy"} :
                   Get(e.result.ret.val, k) = Get(e.answer.val, k)

EncryptDataRejectsEmpty_witness ==
  /\ encrypted.called
  /\ Len(encrypted.data) = 0
  /\ encrypted.publicKeys = << >>
  /\ encrypted.result.ret.kind = "error"

====
